---------------------------- MODULE Spec2Model ----------------------------
(***************************************************************************)
(* A model of src/app.py of greek-lexicon-api: the reference parser, the   *)
(* source-text fallback chain (fetch_greek_text) and the two endpoints     *)
(* analyze_verse and analyze_raw with their fence stripping and JSON       *)
(* parsing of the model's reply.                                           *)
(*                                                                         *)
(* A Python str is a sequence of one-character strings.  The Greek of the  *)
(* local table and of the providers is written in Latin transliteration,   *)
(* one token per word, because the module text is ASCII.                   *)
(***************************************************************************)
EXTENDS Integers, Sequences, FiniteSets, TLC

(***************************************************************************)
(* Bounds of the model.                                                    *)
(***************************************************************************)
\* the largest number of whitespace characters put around a reference or a
\* model reply
MaxPad == 1
\* the largest number of verse entries in a primary provider's payload
MaxVerses == 2

(***************************************************************************)
(* Character classes.                                                      *)
(***************************************************************************)
\* what str.strip() removes and what \s of the re module matches
PyWhitespace == {" ", "\t", "\n", "\r", "\f"}

\* what the json module skips between tokens
JsonWhitespace == {" ", "\t", "\n", "\r"}

\* \d of the pattern
Digits == {"0", "1", "2", "3", "4", "5", "6", "7", "8", "9"}

\* [A-Za-z] of the pattern
Letters ==
    {"a", "b", "c", "d", "e", "f", "g", "h", "i", "j", "k", "l", "m",
     "n", "o", "p", "q", "r", "s", "t", "u", "v", "w", "x", "y", "z",
     "A", "B", "C", "D", "E", "F", "G", "H", "I", "J", "K", "L", "M",
     "N", "O", "P", "Q", "R", "S", "T", "U", "V", "W", "X", "Y", "Z"}

(***************************************************************************)
(* str operations.                                                         *)
(***************************************************************************)
\* s[i:] of Python with the 1-based index i of the first character kept
From(s, i) ==
    IF i > Len(s) THEN << >> ELSE SubSeq(s, i, Len(s))

\* s[i:j] of Python as the characters i .. j-1 (1-based), j cut to the end
Slice(s, i, j) ==
    LET e == IF j - 1 > Len(s) THEN Len(s) ELSE j - 1
    IN  IF e < i THEN << >> ELSE SubSeq(s, i, e)

\* the first index >= i of s whose character is not in class, Len(s)+1 if none
RECURSIVE SkipClass(_, _, _)
SkipClass(s, i, class) ==
    IF i <= Len(s) /\ s[i] \in class
    THEN SkipClass(s, i + 1, class)
    ELSE i

\* the last index <= i of s whose character is not in class, 0 if none
RECURSIVE SkipClassBack(_, _, _)
SkipClassBack(s, i, class) ==
    IF i >= 1 /\ s[i] \in class
    THEN SkipClassBack(s, i - 1, class)
    ELSE i

\* str.strip()
Strip(s) ==
    LET a == SkipClass(s, 1, PyWhitespace)
        b == SkipClassBack(s, Len(s), PyWhitespace)
    IN  IF a > b THEN << >> ELSE SubSeq(s, a, b)

\* str.startswith(p)
StartsWith(s, p) ==
    /\ Len(s) >= Len(p)
    /\ SubSeq(s, 1, Len(p)) = p

\* str.find(sep, i): the first index >= i where sep occurs in s, 0 if none
Find(s, sep, i) ==
    LET hits == { k \in i..(Len(s) - Len(sep) + 1) :
                    SubSeq(s, k, k + Len(sep) - 1) = sep }
    IN  IF hits = {} THEN 0
        ELSE CHOOSE k \in hits : \A m \in hits : k <= m

\* str.split(sep, maxsplit): at most maxsplit splits, the rest left whole
RECURSIVE Split(_, _, _)
Split(s, sep, maxsplit) ==
    LET i == Find(s, sep, 1)
    IN  IF maxsplit = 0 \/ i = 0
        THEN << s >>
        ELSE << Slice(s, 1, i) >>
                 \o Split(From(s, i + Len(sep)), sep, maxsplit - 1)

\* sep.join(list)
RECURSIVE Join(_, _)
Join(sep, list) ==
    IF list = << >> THEN << >>
    ELSE IF Len(list) = 1 THEN list[1]
    ELSE list[1] \o sep \o Join(sep, Tail(list))

(***************************************************************************)
(* parse_reference.                                                        *)
(***************************************************************************)
\* re.match of ^(\d?\s*[A-Za-z]+)\s+(\d+):(\d+)(?:-(\d+))?$ on s.  The
\* character classes that follow one another are disjoint, so the greedy
\* match is the only one.  group4 is None when the range is absent.
ReMatch(s) ==
    LET d1 == IF 1 <= Len(s) /\ s[1] \in Digits THEN 2 ELSE 1
        b1 == SkipClass(s, d1, PyWhitespace)
        b2 == SkipClass(s, b1, Letters)
        c1 == SkipClass(s, b2, PyWhitespace)
        c2 == SkipClass(s, c1, Digits)
        v2 == SkipClass(s, c2 + 1, Digits)
        e2 == SkipClass(s, v2 + 1, Digits)
        head == /\ b2 > b1
                /\ c1 > b2
                /\ c2 > c1
                /\ c2 <= Len(s)
                /\ s[c2] = ":"
                /\ v2 > c2 + 1
        norange == v2 = Len(s) + 1
        range == /\ v2 <= Len(s)
                 /\ s[v2] = "-"
                 /\ e2 > v2 + 1
                 /\ e2 = Len(s) + 1
    IN  IF head /\ (norange \/ range)
        THEN [matched |-> TRUE,
              group1 |-> Slice(s, 1, b2),
              group2 |-> Slice(s, c1, c2),
              group3 |-> Slice(s, c2 + 1, v2),
              hasGroup4 |-> range,
              group4 |-> IF range THEN Slice(s, v2 + 1, e2) ELSE << >>]
        ELSE [matched |-> FALSE, group1 |-> << >>, group2 |-> << >>,
              group3 |-> << >>, hasGroup4 |-> FALSE, group4 |-> << >>]

\* parse_reference(ref): ok = FALSE stands for the ValueError it raises
parse_reference(ref) ==
    LET match == ReMatch(Strip(ref))
        verse_start == match.group3
        verse_end == IF match.hasGroup4 /\ match.group4 # << >>
                     THEN match.group4
                     ELSE verse_start
    IN  IF ~match.matched
        THEN [ok |-> FALSE, book |-> << >>, chapter |-> << >>,
              verse_start |-> << >>, verse_end |-> << >>]
        ELSE [ok |-> TRUE,
              book |-> Strip(match.group1),
              chapter |-> match.group2,
              verse_start |-> verse_start,
              verse_end |-> verse_end]

(***************************************************************************)
(* JSON values, as the json module builds them: a value is a record        *)
(* [t, v] with t its type and v its content.  A dict is the sequence of    *)
(* its <<key, value>> pairs in insertion order.                            *)
(***************************************************************************)
JStr(chars) == [t |-> "string", v |-> chars]

JNum(digits) == [t |-> "number", v |-> digits]

JLit(name) == [t |-> "literal", v |-> name]

JArr(items) == [t |-> "array", v |-> items]

JObj(pairs) == [t |-> "object", v |-> pairs]

\* isinstance(x, list), isinstance(x, dict), isinstance(x, str)
IsList(x) == x.t = "array"

IsDict(x) == x.t = "object"

IsStr(x) == x.t = "string"

\* key in d
HasKey(d, key) ==
    \E k \in 1..Len(d.v) : d.v[k][1] = key

\* d[key] for a key of d
GetKey(d, key) ==
    d.v[CHOOSE k \in 1..Len(d.v) : d.v[k][1] = key][2]

\* d[key] = val on the pairs of a dict: a key already present keeps its place
DictSet(pairs, key, val) ==
    IF \E k \in 1..Len(pairs) : pairs[k][1] = key
    THEN [k \in 1..Len(pairs) |->
             IF pairs[k][1] = key THEN << key, val >> ELSE pairs[k]]
    ELSE Append(pairs, << key, val >>)

\* list(d.values())
DictValues(d) ==
    [k \in 1..Len(d.v) |-> d.v[k][2]]

(***************************************************************************)
(* json.loads.  Numbers are integers and a string escape is a backslash    *)
(* followed by one character; the replies drawn below use no other form.   *)
(***************************************************************************)
Quote == "\""

Backslash == "\\"

\* the characters json.loads refuses unescaped inside a string
ControlChars == {"\t", "\n", "\r", "\f"}

\* the character after a backslash and the character it stands for
Unescape(c) ==
    CASE c = "n" -> "\n" [] c = "t" -> "\t" [] c = "r" -> "\r"
      [] c = "f" -> "\f" [] OTHER -> c

Escapable == {Quote, Backslash, "/", "n", "t", "r", "f"}

ParseFail == [ok |-> FALSE, val |-> JLit(<< >>), next |-> 0]

\* the string whose opening quote is at i - 1: characters up to the closing quote
RECURSIVE ScanString(_, _, _)
ScanString(s, i, acc) ==
    IF i > Len(s) THEN ParseFail
    ELSE IF s[i] = Quote
         THEN [ok |-> TRUE, val |-> JStr(acc), next |-> i + 1]
    ELSE IF s[i] = Backslash
         THEN IF i + 1 <= Len(s) /\ s[i + 1] \in Escapable
              THEN ScanString(s, i + 2, Append(acc, Unescape(s[i + 1])))
              ELSE ParseFail
    ELSE IF s[i] \in ControlChars THEN ParseFail
    ELSE ScanString(s, i + 1, Append(acc, s[i]))

\* -?(0|[1-9][0-9]*) at i
ScanNumber(s, i) ==
    LET k == IF s[i] = "-" THEN i + 1 ELSE i
        e == IF k <= Len(s) /\ s[k] = "0" THEN k + 1
             ELSE SkipClass(s, k, Digits)
        text == Slice(s, i, e)
    IN  IF e = k THEN ParseFail
        ELSE [ok |-> TRUE,
              val |-> JNum(IF text = << "-", "0" >> THEN << "0" >> ELSE text),
              next |-> e]

LiteralNames ==
    << << "t", "r", "u", "e" >>, << "f", "a", "l", "s", "e" >>,
       << "n", "u", "l", "l" >> >>

RECURSIVE ScanValue(_, _), ScanElements(_, _, _), ScanMembers(_, _, _)

\* the value that starts at the first non-blank character from i on
ScanValue(s, i0) ==
    LET i == SkipClass(s, i0, JsonWhitespace)
        rest == From(s, i)
        j == SkipClass(s, i + 1, JsonWhitespace)
    IN  IF i > Len(s) THEN ParseFail
        ELSE IF s[i] = Quote THEN ScanString(s, i + 1, << >>)
        ELSE IF s[i] = "["
             THEN IF j <= Len(s) /\ s[j] = "]"
                  THEN [ok |-> TRUE, val |-> JArr(<< >>), next |-> j + 1]
                  ELSE ScanElements(s, i + 1, << >>)
        ELSE IF s[i] = "{"
             THEN IF j <= Len(s) /\ s[j] = "}"
                  THEN [ok |-> TRUE, val |-> JObj(<< >>), next |-> j + 1]
                  ELSE ScanMembers(s, i + 1, << >>)
        ELSE IF s[i] \in Digits \cup {"-"} THEN ScanNumber(s, i)
        ELSE IF \E n \in 1..Len(LiteralNames) : StartsWith(rest, LiteralNames[n])
             THEN LET n == CHOOSE n \in 1..Len(LiteralNames) :
                               StartsWith(rest, LiteralNames[n])
                  IN  [ok |-> TRUE, val |-> JLit(LiteralNames[n]),
                       next |-> i + Len(LiteralNames[n])]
        ELSE ParseFail

\* the elements of an array from i on, up to its closing bracket
ScanElements(s, i, acc) ==
    LET r == ScanValue(s, i)
        j == SkipClass(s, r.next, JsonWhitespace)
    IN  IF ~r.ok \/ j > Len(s) THEN ParseFail
        ELSE IF s[j] = "]"
             THEN [ok |-> TRUE, val |-> JArr(Append(acc, r.val)), next |-> j + 1]
        ELSE IF s[j] = ","
             THEN ScanElements(s, j + 1, Append(acc, r.val))
        ELSE ParseFail

\* the "key": value members of an object from i on, up to its closing brace
ScanMembers(s, i, acc) ==
    LET k == SkipClass(s, i, JsonWhitespace)
        key == IF k <= Len(s) /\ s[k] = Quote
               THEN ScanString(s, k + 1, << >>)
               ELSE ParseFail
        c == SkipClass(s, key.next, JsonWhitespace)
        r == ScanValue(s, c + 1)
        j == SkipClass(s, r.next, JsonWhitespace)
    IN  IF ~key.ok \/ c > Len(s) THEN ParseFail
        ELSE IF s[c] # ":" THEN ParseFail
        ELSE IF ~r.ok \/ j > Len(s) THEN ParseFail
        ELSE IF s[j] = "}"
             THEN [ok |-> TRUE,
                   val |-> JObj(DictSet(acc, key.val.v, r.val)),
                   next |-> j + 1]
        ELSE IF s[j] = ","
             THEN ScanMembers(s, j + 1, DictSet(acc, key.val.v, r.val))
        ELSE ParseFail

\* json.loads(s): ok = FALSE stands for json.JSONDecodeError
json_loads(s) ==
    LET r == ScanValue(s, 1)
    IN  IF r.ok /\ SkipClass(s, r.next, JsonWhitespace) = Len(s) + 1
        THEN [ok |-> TRUE, val |-> r.val]
        ELSE [ok |-> FALSE, val |-> JLit(<< >>)]

(***************************************************************************)
(* json.dumps(value, ensure_ascii=False).                                  *)
(***************************************************************************)
\* one character of a string as json.dumps writes it
EscapeChar(c) ==
    CASE c = Quote -> << Backslash, Quote >>
      [] c = Backslash -> << Backslash, Backslash >>
      [] c = "\n" -> << Backslash, "n" >>
      [] c = "\t" -> << Backslash, "t" >>
      [] c = "\r" -> << Backslash, "r" >>
      [] c = "\f" -> << Backslash, "f" >>
      [] OTHER -> << c >>

RECURSIVE EscapeString(_)
EscapeString(chars) ==
    IF chars = << >> THEN << >>
    ELSE EscapeChar(Head(chars)) \o EscapeString(Tail(chars))

DumpString(chars) == << Quote >> \o EscapeString(chars) \o << Quote >>

RECURSIVE json_dumps(_)
json_dumps(x) ==
    CASE x.t = "string" -> DumpString(x.v)
      [] x.t = "number" -> x.v
      [] x.t = "literal" -> x.v
      [] x.t = "array" ->
           << "[" >>
           \o Join(<< ",", " " >>, [k \in 1..Len(x.v) |-> json_dumps(x.v[k])])
           \o << "]" >>
      [] x.t = "object" ->
           << "{" >>
           \o Join(<< ",", " " >>,
                   [k \in 1..Len(x.v) |->
                       DumpString(x.v[k][1]) \o << ":", " " >>
                       \o json_dumps(x.v[k][2])])
           \o << "}" >>

(***************************************************************************)
(* Configuration: the environment variables the module reads.  An unset    *)
(* variable and an empty one are both the empty string: the code tests     *)
(* them for truth only.                                                    *)
(***************************************************************************)
\* the character U+0060, which a string of this module's text cannot hold
Backtick == "BACKTICK"

\* the fence marker the endpoints split on
Fence == << Backtick, Backtick, Backtick >>

JsonTag == << "j", "s", "o", "n" >>

OpenRouterPrefix == << "s", "k", "-", "o", "r", "-" >>

Environments ==
    << [KIMI_API_KEY |-> << >>, BIBLE_API_KEY |-> << >>,
        BIBLE_KEY |-> << >>, BIBLE_ID |-> << >>],
       [KIMI_API_KEY |-> OpenRouterPrefix \o << "1" >>,
        BIBLE_API_KEY |-> << "k" >>, BIBLE_KEY |-> << >>,
        BIBLE_ID |-> << "b" >>],
       [KIMI_API_KEY |-> << "s", "k", "-", "2" >>,
        BIBLE_API_KEY |-> << >>, BIBLE_KEY |-> << "k" >>,
        BIBLE_ID |-> << "b" >>],
       [KIMI_API_KEY |-> << "s", "k", "-", "2" >>,
        BIBLE_API_KEY |-> << "k" >>, BIBLE_KEY |-> << >>,
        BIBLE_ID |-> << >>],
       [KIMI_API_KEY |-> OpenRouterPrefix \o << "1" >>,
        BIBLE_API_KEY |-> << >>, BIBLE_KEY |-> << >>,
        BIBLE_ID |-> << "b" >>],
       [KIMI_API_KEY |-> << "s", "k", "-", "2" >>,
        BIBLE_API_KEY |-> << >>, BIBLE_KEY |-> << >>,
        BIBLE_ID |-> << >>] >>

(***************************************************************************)
(* The local table of fetch_greek_text, in the order of its keys.          *)
(***************************************************************************)
verse_database ==
    << << << "J", "o", "h", "n", " ", "1", ":", "1" >>,
          << "En", " ", "arche", " ", "en", " ", "ho", " ", "logos", " ",
             "kai", " ", "ho", " ", "logos", " ", "en", " ", "pros", " ",
             "ton", " ", "theon", " ", "kai", " ", "theos", " ", "en", " ",
             "ho", " ", "logos" >> >>,
       << << "J", "o", "h", "n", " ", "3", ":", "1", "6" >>,
          << "houtos", " ", "gar", " ", "egapesen", " ", "ho", " ",
             "theos", " ", "ton", " ", "kosmon", " ", "hoste", " ", "ton",
             " ", "huion", " ", "ton", " ", "monogene", " ", "edoken" >> >>,
       << << "R", "o", "m", "a", "n", "s", " ", "8", ":", "2", "8" >>,
          << "oidamen", " ", "de", " ", "hoti", " ", "tois", " ",
             "agaposin", " ", "ton", " ", "theon", " ", "panta", " ",
             "sunergei", " ", "eis", " ", "agathon" >> >>,
       << << "M", "a", "t", "t", "h", "e", "w", " ", "5", ":", "3" >>,
          << "Makarioi", " ", "hoi", " ", "ptochoi", " ", "to", " ",
             "pneumati", " ", "hoti", " ", "auton", " ", "estin", " ",
             "he", " ", "basileia", " ", "ton", " ", "ouranon" >> >>,
       << << "P", "h", "i", "l", "i", "p", "p", "i", "a", "n", "s", " ", "2", ":", "5" >>,
          << "touto", " ", "phroneite", " ", "en", " ", "humin", " ", "ho",
             " ", "kai", " ", "en", " ", "Christo", " ", "Iesou" >> >> >>

\* list(verse_database.keys())
DatabaseKeys ==
    [k \in 1..Len(verse_database) |-> verse_database[k][1]]

\* a plausible slip: the search of the table starts after its first key
InDatabaseAfterFirstKey(normalized) ==
    \E k \in 2..Len(verse_database) : verse_database[k][1] = normalized

\* normalized in verse_database
InDatabase(normalized) ==
    \E k \in 1..Len(verse_database) : verse_database[k][1] = normalized

\* verse_database[normalized]
DatabaseText(normalized) ==
    verse_database[CHOOSE k \in 1..Len(verse_database) :
                       verse_database[k][1] = normalized][2]

(***************************************************************************)
(* The inputs drawn: references a caller sends and replies the three       *)
(* remote services give.                                                   *)
(***************************************************************************)
\* two keys of the local table, three references that match the pattern
\* (one with its range reversed, one with a leading digit and a range) and
\* three that do not
ReferenceBases ==
    << << "J", "o", "h", "n", " ", "1", ":", "1" >>,
       << "J", "o", "h", "n", " ", "3", ":", "1", "6" >>,
       << "M", "a", "r", "k", " ", "9", "9", ":", "1" >>,
       << "J", "o", "h", "n", " ", "3", ":", "1", "6", "-", "2" >>,
       << "1", " ", "J", "o", "h", "n", " ", "4", ":", "7", "-", "8" >>,
       << "J", "o", "h", "n" >>,
       << "3", ":", "1", "6" >>,
       << >> >>

\* n blanks
Spaces(n) == [k \in 1..n |-> " "]

\* every base reference with up to MaxPad blanks on both sides
References ==
    { Spaces(n) \o ReferenceBases[b] \o Spaces(n) :
        b \in 1..Len(ReferenceBases), n \in 0..MaxPad }

Logos == << "logos" >>

Kai == << "kai" >>

KeyText == << "t", "e", "x", "t" >>

KeyVerses == << "v", "e", "r", "s", "e", "s" >>

KeyData == << "d", "a", "t", "a" >>

KeyContent == << "c", "o", "n", "t", "e", "n", "t" >>

\* the ways a requests call or the decoding of its body raises
RequestFailures == << "ConnectionError", "Timeout", "HTTPError" >>

\* a verse entry of the primary provider: without a text field, with an
\* empty text, with a text
VerseEntries ==
    << JObj(<< >>),
       JObj(<< << KeyText, JStr(<< >>) >> >>),
       JObj(<< << KeyText, JStr(Logos) >> >>) >>

DigitChars == << "1", "2", "3", "4", "5", "6", "7", "8", "9" >>

\* {"verses": {"3": {"1": e1, "2": e2, ...}}} for the entries chosen by f
VersePayload(f) ==
    JObj(<< << KeyVerses,
               JObj(<< << << "3" >>,
                          JObj([k \in DOMAIN f |->
                                   << << DigitChars[k] >>, VerseEntries[f[k]] >>])
                       >> >>) >> >>)

\* payloads of another shape than the one fetch_greek_text expects: a list,
\* a dict without verses, verses that is a list, a verse that is a string,
\* a text that is a number
OddPayloads ==
    << JArr(<< >>),
       JObj(<< >>),
       JObj(<< << KeyVerses, JArr(<< >>) >> >>),
       JObj(<< << KeyVerses,
                  JObj(<< << << "3" >>,
                             JObj(<< << << "1" >>, JStr(Logos) >> >>) >> >>)
               >> >>),
       JObj(<< << KeyVerses,
                  JObj(<< << << "3" >>,
                             JObj(<< << << "1" >>,
                                        JObj(<< << KeyText, JNum(<< "7" >>) >>
                                             >>) >> >>) >> >>)
               >> >>) >>

\* bodies of the secondary provider: a list, an empty dict, nested strings,
\* one empty string, strings inside a list with a number
SecondaryPayloads ==
    << JArr(<< JStr(Logos) >>),
       JObj(<< >>),
       JObj(<< << KeyData,
                  JObj(<< << << "i", "d" >>, JStr(Kai) >>,
                          << KeyContent, JStr(Logos) >> >>) >> >>),
       JObj(<< << KeyData, JStr(<< >>) >> >>),
       JObj(<< << KeyData,
                  JArr(<< JStr(Logos),
                          JObj(<< << KeyContent, JStr(Kai) >> >>),
                          JNum(<< "7" >>) >>) >> >>) >>

\* texts the model may answer with: 
\*   an empty array
\*   one complete entry
\*   an array of a number
\*   an entry with one field only
\*   an entry whose alternatives is a string
\*   an object
\*   a number
\*   prose
\*   an array whose string holds the fence marker
ReplyBodies ==
    << << "[", "]" >>,
       << "[", "{", Quote, "w", "o", "r", "d", Quote, ":", Quote, "l", "o",
          "g", "o", "s", Quote, ",", Quote, "s", "t", "r", "o", "n", "g",
          Quote, ":", Quote, "G", "3", "0", "5", "6", Quote, ",", Quote,
          "l", "e", "m", "m", "a", Quote, ":", Quote, "l", "o", "g", "o",
          "s", Quote, ",", Quote, "t", "r", "a", "n", "s", "l", "a", "t",
          "i", "o", "n", Quote, ":", Quote, "w", "o", "r", "d", Quote, ",",
          Quote, "a", "l", "t", "e", "r", "n", "a", "t", "i", "v", "e",
          "s", Quote, ":", "[", Quote, "w", "o", "r", "d", Quote, ",",
          Quote, "r", "e", "a", "s", "o", "n", Quote, "]", "}", "]" >>,
       << "[", "1", "]" >>,
       << "[", "{", Quote, "w", "o", "r", "d", Quote, ":", Quote, "l", "o",
          "g", "o", "s", Quote, "}", "]" >>,
       << "[", "{", Quote, "w", "o", "r", "d", Quote, ":", Quote, "l", "o",
          "g", "o", "s", Quote, ",", Quote, "s", "t", "r", "o", "n", "g",
          Quote, ":", Quote, "G", "3", "0", "5", "6", Quote, ",", Quote,
          "l", "e", "m", "m", "a", Quote, ":", Quote, "l", "o", "g", "o",
          "s", Quote, ",", Quote, "t", "r", "a", "n", "s", "l", "a", "t",
          "i", "o", "n", Quote, ":", Quote, "w", "o", "r", "d", Quote, ",",
          Quote, "a", "l", "t", "e", "r", "n", "a", "t", "i", "v", "e",
          "s", Quote, ":", Quote, "w", "o", "r", "d", Quote, "}", "]" >>,
       << "{", Quote, "w", "o", "r", "d", Quote, ":", Quote, "l", "o", "g",
          "o", "s", Quote, "}" >>,
       << "7" >>,
       << "n", "o", "t", " ", "j", "s", "o", "n" >>,
       << "[", Quote, "a", Backtick, Backtick, Backtick, "b", Quote, "]" >> >>

\* x inside a fence with the json tag
FenceWrap(x) ==
    Fence \o JsonTag \o << "\n" >> \o x \o << "\n" >> \o Fence

\* x inside a fence without a tag
BareFenceWrap(x) ==
    Fence \o << "\n" >> \o x \o << "\n" >> \o Fence

\* x after an opening fence that is never closed
OpenFenceWrap(x) ==
    Fence \o JsonTag \o << "\n" >> \o x

\* the message contents drawn: each body as it is, between blanks, and in
\* the three fences
ModelContents ==
    { ReplyBodies[b] : b \in 1..Len(ReplyBodies) }
    \cup { Spaces(n) \o ReplyBodies[b] \o Spaces(n) :
             b \in 1..Len(ReplyBodies), n \in 1..MaxPad }
    \cup { FenceWrap(ReplyBodies[b]) : b \in 1..Len(ReplyBodies) }
    \cup { BareFenceWrap(ReplyBodies[b]) : b \in 1..Len(ReplyBodies) }
    \cup { OpenFenceWrap(ReplyBodies[b]) : b \in 1..Len(ReplyBodies) }

(***************************************************************************)
(* fetch_greek_text: the extraction of the text from the two providers'    *)
(* bodies, the two URLs and the error it raises.                           *)
(***************************************************************************)
\* d.get(key, {}) of a dict d
GetOrEmptyDict(d, key) ==
    IF HasKey(d, key) THEN GetKey(d, key) ELSE JObj(<< >>)

\* verse_data.get('text', '')
GetText(verse_data) ==
    IF HasKey(verse_data, KeyText) THEN GetKey(verse_data, KeyText)
    ELSE JStr(<< >>)

\* the concatenation of a sequence of sequences
RECURSIVE Flatten(_)
Flatten(lists) ==
    IF lists = << >> THEN << >>
    ELSE Head(lists) \o Flatten(Tail(lists))

\* the two nested loops over data.get('verses', {}): the list verses they
\* build, or raised when .get or .items() meets a value that is no dict
CollectVerses(data) ==
    LET verses_map == GetOrEmptyDict(data, KeyVerses)
        chapters == DictValues(verses_map)
    IN  IF ~IsDict(data) THEN [raised |-> TRUE, verses |-> << >>]
        ELSE IF ~IsDict(verses_map) THEN [raised |-> TRUE, verses |-> << >>]
        ELSE IF \E c \in 1..Len(chapters) :
                   \/ ~IsDict(chapters[c])
                   \/ \E k \in 1..Len(chapters[c].v) :
                          ~IsDict(chapters[c].v[k][2])
             THEN [raised |-> TRUE, verses |-> << >>]
        ELSE [raised |-> FALSE,
              verses |-> Flatten([c \in 1..Len(chapters) |->
                            [k \in 1..Len(chapters[c].v) |->
                                GetText(chapters[c].v[k][2])]])]

\* the test that decides whether the primary provider's verses are returned
HasVerses(verses) == verses # << >>

\* the try block of the primary provider on the decoded body data:
\* returned with the text, or not (an exception caught, or no verses)
PrimaryExtract(data) ==
    LET c == CollectVerses(data)
    IN  IF c.raised THEN [returned |-> FALSE, text |-> << >>]
        ELSE IF ~HasVerses(c.verses) THEN [returned |-> FALSE, text |-> << >>]
        ELSE IF \E k \in 1..Len(c.verses) : ~IsStr(c.verses[k])
             THEN [returned |-> FALSE, text |-> << >>]
        ELSE [returned |-> TRUE,
              text |-> Join(<< " " >>,
                            [k \in 1..Len(c.verses) |-> c.verses[k].v])]

\* extract_text: every string nested in obj, in traversal order
RECURSIVE extract_text(_)
extract_text(obj) ==
    IF IsStr(obj) THEN << obj.v >>
    ELSE IF IsDict(obj)
         THEN Flatten([k \in 1..Len(obj.v) |-> extract_text(obj.v[k][2])])
    ELSE IF IsList(obj)
         THEN Flatten([k \in 1..Len(obj.v) |-> extract_text(obj.v[k])])
    ELSE << >>

\* the try block of the secondary provider on the decoded body j
SecondaryExtract(j) ==
    LET text_parts == IF IsDict(j) THEN extract_text(j) ELSE << >>
    IN  IF text_parts # << >>
        THEN [returned |-> TRUE, text |-> Join(<< " " >>, text_parts)]
        ELSE [returned |-> FALSE, text |-> << >>]

\* a plausible slip: "or" for "and", so that one of the two values is enough
SecondaryEnabledByEither(e) ==
    \/ e.BIBLE_API_KEY # << >>
    \/ e.BIBLE_KEY # << >>
    \/ e.BIBLE_ID # << >>

\* BIBLE_API_KEY and BIBLE_ID of fetch_greek_text are both set
SecondaryEnabled(e) ==
    LET BIBLE_API_KEY == IF e.BIBLE_API_KEY # << >> THEN e.BIBLE_API_KEY
                         ELSE e.BIBLE_KEY
    IN  BIBLE_API_KEY # << >> /\ e.BIBLE_ID # << >>

\* formatted_ref
FormattedRef(p) ==
    p.book \o << "+" >> \o p.chapter \o << ":" >> \o p.verse_start

\* passage_path
PassagePath(p) ==
    p.book \o << "%", "2", "0" >> \o p.chapter \o << ":" >> \o p.verse_start

PrimaryCall(p) ==
    [to |-> "getbible.net", path |-> FormattedRef(p), timeout |-> 10]

SecondaryCall(p) ==
    [to |-> "rest.api.bible", path |-> PassagePath(p), timeout |-> 10]

\* the call of the endpoint ep to the model, chosen by the key's prefix
ModelCall(e, ep, text) ==
    [to |-> IF StartsWith(e.KIMI_API_KEY, OpenRouterPrefix)
            THEN "openrouter.ai" ELSE "api.moonshot.cn",
     path |-> << "<verse>" >> \o text \o << "</verse>" >>,
     timeout |-> IF ep = "analyze_raw" THEN 120 ELSE 60]

NoValue == JLit(<< >>)

\* no response sent yet
NoResponse ==
    [status_code |-> 0, detail |-> << >>, text |-> << >>,
     reference |-> << >>, analysis |-> NoValue, content |-> << >>]

\* HTTPException(status_code, detail) as the framework answers it
HTTPException(status_code, detail) ==
    [NoResponse EXCEPT !.status_code = status_code, !.detail = detail]

\* the detail of the 404 of fetch_greek_text
NotAvailableDetail(ref) ==
    << "Verse '" >> \o ref \o << "' not available. Demo verses: " >>
    \o Join(<< ",", " " >>, DatabaseKeys)

\* the HTTPException fetch_greek_text raises for ref
NotAvailable(ref) == HTTPException(404, NotAvailableDetail(ref))

(***************************************************************************)
(* The handling of the model's reply in analyze_verse and analyze_raw.     *)
(***************************************************************************)
\* a plausible slip: the json tag after the opening fence is left in place
strip_code_fences_keeping_tag(content) ==
    LET stripped == Strip(content)
        parts == Split(stripped, Fence, 2)
    IN  IF StartsWith(stripped, Fence) /\ Len(parts) >= 2
        THEN Strip(parts[2])
        ELSE Strip(stripped)

\* content.strip(), the fence and its json tag removed, .strip() again
strip_code_fences(content) ==
    LET stripped == Strip(content)
        parts == Split(stripped, Fence, 2)
        inner == IF StartsWith(parts[2], JsonTag)
                 THEN From(parts[2], 5)
                 ELSE parts[2]
    IN  IF StartsWith(stripped, Fence) /\ Len(parts) >= 2
        THEN Strip(inner)
        ELSE Strip(stripped)

\* the test of analyze_raw on the parsed value
IsJsonArray(parsed) == IsList(parsed)

\* what analyze_verse answers to the message content of the model
AnalyzeVerseReply(text, ref, content) ==
    LET stripped == strip_code_fences(content)
        lexicon_data == json_loads(stripped)
    IN  IF ~lexicon_data.ok
        THEN HTTPException(500, << "Invalid JSON from AI: " >>)
        ELSE [NoResponse EXCEPT !.status_code = 200, !.text = text,
                                !.reference = ref,
                                !.analysis = lexicon_data.val]

\* what analyze_raw answers to the message content of the model
AnalyzeRawReply(content) ==
    LET stripped == strip_code_fences(content)
        parsed == json_loads(stripped)
    IN  IF ~parsed.ok
        THEN HTTPException(500, << "Invalid JSON from AI: ", " | raw: " >>
                                \o Slice(stripped, 1, 301))
        ELSE IF ~IsJsonArray(parsed.val)
        THEN HTTPException(500,
                 << "AI output was not a JSON array as required." >>)
        ELSE [NoResponse EXCEPT !.status_code = 200,
                                !.analysis = parsed.val,
                                !.content = json_dumps(parsed.val)]

(***************************************************************************)
(* The state of one request and of the process that serves it.             *)
(***************************************************************************)
VARIABLES
    env,         \* the environment variables of the process
    pc,          \* where the request is: idle, lookup, parse, primary,
                 \* secondary, model, done
    endpoint,    \* analyze_verse or analyze_raw ("none" before a request)
    reference,   \* request.reference
    parts,       \* the result of parse_reference in fetch_greek_text
    resolution,  \* pending, Found (fetch_greek_text returned) or NotFound
                 \* (it raised)
    greek_text,  \* the text fetch_greek_text returned
    calls,       \* the outbound HTTP calls made so far, in order
    content,     \* the message content the model returned
    response     \* the response sent to the caller

vars ==
    << env, pc, endpoint, reference, parts, resolution, greek_text, calls,
       content, response >>

NoParts ==
    [ok |-> FALSE, book |-> << >>, chapter |-> << >>,
     verse_start |-> << >>, verse_end |-> << >>]

Init ==
    /\ env \in { Environments[k] : k \in 1..Len(Environments) }
    /\ pc = "idle"
    /\ endpoint = "none"
    /\ reference = << >>
    /\ parts = NoParts
    /\ resolution = "pending"
    /\ greek_text = << >>
    /\ calls = << >>
    /\ content = << >>
    /\ response = NoResponse

\* POST /api/analyze arrives with reference ref
RequestAnalyzeVerse(ref) ==
    /\ pc = "idle"
    /\ endpoint' = "analyze_verse"
    /\ reference' = ref
    /\ pc' = "lookup"
    /\ UNCHANGED << env, parts, resolution, greek_text, calls, content,
                    response >>

\* POST /api/analyze_raw arrives with reference ref: refused without a key
RequestAnalyzeRaw(ref) ==
    /\ pc = "idle"
    /\ endpoint' = "analyze_raw"
    /\ reference' = ref
    /\ IF env.KIMI_API_KEY = << >>
       THEN /\ response' = HTTPException(400,
                               << "KIMI_API_KEY not set; cannot perform lexical analysis without an API key." >>)
            /\ pc' = "done"
       ELSE /\ response' = response
            /\ pc' = "lookup"
    /\ UNCHANGED << env, parts, resolution, greek_text, calls, content >>

\* fetch_greek_text, 1: the local table
LocalLookup ==
    /\ pc = "lookup"
    /\ LET normalized == Strip(reference)
       IN  IF InDatabase(normalized)
           THEN /\ greek_text' = DatabaseText(normalized)
                /\ resolution' = "Found"
                /\ pc' = "model"
           ELSE /\ pc' = "parse"
                /\ UNCHANGED << greek_text, resolution >>
    /\ UNCHANGED << env, endpoint, reference, parts, calls, content,
                    response >>

\* a plausible slip: the ValueError is swallowed and the chain goes on
ParseReferenceIgnoringError ==
    /\ pc = "parse"
    /\ parts' = parse_reference(reference)
    /\ pc' = "primary"
    /\ UNCHANGED << env, endpoint, reference, resolution, greek_text, calls,
                    content, response >>

\* fetch_greek_text, 2: the reference is parsed; a ValueError becomes the 404,
\* which both endpoints re-raise
ParseReference ==
    /\ pc = "parse"
    /\ parts' = parse_reference(reference)
    /\ IF parts'.ok
       THEN /\ pc' = "primary"
            /\ UNCHANGED << resolution, response >>
       ELSE /\ resolution' = "NotFound"
            /\ response' = NotAvailable(reference)
            /\ pc' = "done"
    /\ UNCHANGED << env, endpoint, reference, greek_text, calls, content >>

\* a plausible slip: a failed call to getbible.net is tried once more
PrimaryRaisesRetrying(kind) ==
    /\ pc = "primary"
    /\ calls' = Append(calls, PrimaryCall(parts))
    /\ pc' = IF Len(calls) = 0 THEN "primary" ELSE "secondary"
    /\ UNCHANGED << env, endpoint, reference, parts, resolution, greek_text,
                    content, response >>

\* fetch_greek_text, 3: the call to getbible.net raises (the request, the
\* status or the decoding of the body); the exception is caught
PrimaryRaises(kind) ==
    /\ pc = "primary"
    /\ calls' = Append(calls, PrimaryCall(parts))
    /\ pc' = "secondary"
    /\ UNCHANGED << env, endpoint, reference, parts, resolution, greek_text,
                    content, response >>

\* fetch_greek_text, 3: the call to getbible.net answers the body data
PrimaryAnswers(data) ==
    /\ pc = "primary"
    /\ calls' = Append(calls, PrimaryCall(parts))
    /\ LET r == PrimaryExtract(data)
       IN  IF r.returned
           THEN /\ greek_text' = r.text
                /\ resolution' = "Found"
                /\ pc' = "model"
           ELSE /\ pc' = "secondary"
                /\ UNCHANGED << greek_text, resolution >>
    /\ UNCHANGED << env, endpoint, reference, parts, content, response >>

\* fetch_greek_text, 4 and 5: the secondary provider is not configured, so
\* the 404 is raised
SecondarySkipped ==
    /\ pc = "secondary"
    /\ ~SecondaryEnabled(env)
    /\ resolution' = "NotFound"
    /\ response' = NotAvailable(reference)
    /\ pc' = "done"
    /\ UNCHANGED << env, endpoint, reference, parts, greek_text, calls,
                    content >>

\* fetch_greek_text, 4 and 5: the call to rest.api.bible raises; the
\* exception is caught and the 404 raised
SecondaryRaises(kind) ==
    /\ pc = "secondary"
    /\ SecondaryEnabled(env)
    /\ calls' = Append(calls, SecondaryCall(parts))
    /\ resolution' = "NotFound"
    /\ response' = NotAvailable(reference)
    /\ pc' = "done"
    /\ UNCHANGED << env, endpoint, reference, parts, greek_text, content >>

\* fetch_greek_text, 4 and 5: the call to rest.api.bible answers the body j
SecondaryAnswers(j) ==
    /\ pc = "secondary"
    /\ SecondaryEnabled(env)
    /\ calls' = Append(calls, SecondaryCall(parts))
    /\ LET r == SecondaryExtract(j)
       IN  IF r.returned
           THEN /\ greek_text' = r.text
                /\ resolution' = "Found"
                /\ pc' = "model"
                /\ UNCHANGED response
           ELSE /\ resolution' = "NotFound"
                /\ response' = NotAvailable(reference)
                /\ pc' = "done"
                /\ UNCHANGED greek_text
    /\ UNCHANGED << env, endpoint, reference, parts, content >>

\* the rest of either endpoint when requests.post or raise_for_status raises
\* a RequestException
ModelRaises(kind) ==
    /\ pc = "model"
    /\ calls' = Append(calls, ModelCall(env, endpoint, greek_text))
    /\ response' = HTTPException(500, << "API error: ", kind >>)
    /\ pc' = "done"
    /\ UNCHANGED << env, endpoint, reference, parts, resolution, greek_text,
                    content >>

\* the rest of either endpoint when the body of the model's answer has no
\* choices[0].message.content
ModelAnswersOddly ==
    /\ pc = "model"
    /\ calls' = Append(calls, ModelCall(env, endpoint, greek_text))
    /\ response' = HTTPException(500, << "Error: ", "KeyError" >>)
    /\ pc' = "done"
    /\ UNCHANGED << env, endpoint, reference, parts, resolution, greek_text,
                    content >>

\* the rest of analyze_verse when the model answers the message content c
AnalyzeVerseAnswers(c) ==
    /\ pc = "model"
    /\ endpoint = "analyze_verse"
    /\ calls' = Append(calls, ModelCall(env, endpoint, greek_text))
    /\ content' = c
    /\ response' = AnalyzeVerseReply(greek_text, reference, c)
    /\ pc' = "done"
    /\ UNCHANGED << env, endpoint, reference, parts, resolution, greek_text >>

\* the rest of analyze_raw when the model answers the message content c
AnalyzeRawAnswers(c) ==
    /\ pc = "model"
    /\ endpoint = "analyze_raw"
    /\ calls' = Append(calls, ModelCall(env, endpoint, greek_text))
    /\ content' = c
    /\ response' = AnalyzeRawReply(c)
    /\ pc' = "done"
    /\ UNCHANGED << env, endpoint, reference, parts, resolution, greek_text >>

\* the verse entries a primary payload is built from: up to MaxVerses
VerseChoices ==
    UNION { [1..n -> 1..Len(VerseEntries)] : n \in 0..MaxVerses }

Next ==
    \/ \E ref \in References : RequestAnalyzeVerse(ref)
    \/ \E ref \in References : RequestAnalyzeRaw(ref)
    \/ LocalLookup
    \/ ParseReference
    \/ \E k \in 1..Len(RequestFailures) : PrimaryRaises(RequestFailures[k])
    \/ \E f \in VerseChoices : PrimaryAnswers(VersePayload(f))
    \/ \E k \in 1..Len(OddPayloads) : PrimaryAnswers(OddPayloads[k])
    \/ SecondarySkipped
    \/ \E k \in 1..Len(RequestFailures) : SecondaryRaises(RequestFailures[k])
    \/ \E k \in 1..Len(SecondaryPayloads) : SecondaryAnswers(SecondaryPayloads[k])
    \/ \E k \in 1..Len(RequestFailures) : ModelRaises(RequestFailures[k])
    \/ ModelAnswersOddly
    \/ \E c \in ModelContents : AnalyzeVerseAnswers(c)
    \/ \E c \in ModelContents : AnalyzeRawAnswers(c)

Spec == Init /\ [][Next]_vars

(***************************************************************************)
(* Vocabulary of the properties.                                           *)
(***************************************************************************)
\* the value of one decimal digit
DigitValue(c) ==
    CASE c = "0" -> 0 [] c = "1" -> 1 [] c = "2" -> 2 [] c = "3" -> 3
      [] c = "4" -> 4 [] c = "5" -> 5 [] c = "6" -> 6 [] c = "7" -> 7
      [] c = "8" -> 8 [] c = "9" -> 9

\* int(s) of a string of decimal digits
RECURSIVE ToInt(_)
ToInt(s) ==
    IF s = << >> THEN 0
    ELSE 10 * ToInt(SubSeq(s, 1, Len(s) - 1)) + DigitValue(s[Len(s)])

\* the hosts called so far, in order
CallTargets == [k \in 1..Len(calls) |-> calls[k].to]

IsRemoteProvider(host) == host \in {"getbible.net", "rest.api.bible"}

IsModelHost(host) == host \in {"openrouter.ai", "api.moonshot.cn"}

\* the calls made to the two remote text providers, in order
RemoteCalls == SelectSeq(CallTargets, IsRemoteProvider)

\* the place of a host in the order primary, secondary, model
TierRank(host) ==
    CASE host = "getbible.net" -> 1
      [] host = "rest.api.bible" -> 2
      [] OTHER -> 3

\* the providers a detail names
ProvidersListed(detail) == SelectSeq(detail, IsRemoteProvider)

\* the request got as far as fetch_greek_text and the lookup and the parse
\* are behind it
ResolutionStarted ==
    /\ pc \notin {"idle", "lookup", "parse"}
    /\ ~(endpoint = "analyze_raw" /\ env.KIMI_API_KEY = << >>)

\* the secondary provider misses its key (under both names) or its id
SecondaryConfigMissing ==
    \/ (env.BIBLE_API_KEY = << >> /\ env.BIBLE_KEY = << >>)
    \/ env.BIBLE_ID = << >>

\* the model's message content was received and answered
Answered == pc = "done" /\ content # << >>

\* c, trimmed, opens with a fence that is never closed
UnterminatedFence(c) ==
    /\ StartsWith(Strip(c), Fence)
    /\ Find(From(Strip(c), Len(Fence) + 1), Fence, 1) = 0

\* the reply bodies that are JSON arrays
ArrayBodies ==
    { b \in 1..Len(ReplyBodies) :
        LET r == json_loads(ReplyBodies[b]) IN r.ok /\ IsList(r.val) }

\* what the caller sees of a response, the analysis as JSON text
Outcome(r) ==
    [status_code |-> r.status_code, detail |-> r.detail, text |-> r.text,
     reference |-> r.reference, analysis |-> json_dumps(r.analysis),
     content |-> r.content]

\* the response of the current endpoint had the model answered x
ReplyTo(x) ==
    IF endpoint = "analyze_raw" THEN AnalyzeRawReply(x)
    ELSE AnalyzeVerseReply(greek_text, reference, x)

KeyWord == << "w", "o", "r", "d" >>

KeyStrong == << "s", "t", "r", "o", "n", "g" >>

KeyLemma == << "l", "e", "m", "m", "a" >>

KeyTranslation ==
    << "t", "r", "a", "n", "s", "l", "a", "t", "i", "o", "n" >>

KeyAlternatives ==
    << "a", "l", "t", "e", "r", "n", "a", "t", "i", "v", "e", "s" >>

\* e is an object with word, strong, lemma, translation (strings) and
\* alternatives (an array of strings)
ValidEntry(e) ==
    /\ IsDict(e)
    /\ \A key \in {KeyWord, KeyStrong, KeyLemma, KeyTranslation} :
           HasKey(e, key) /\ IsStr(GetKey(e, key))
    /\ HasKey(e, KeyAlternatives)
    /\ IsList(GetKey(e, KeyAlternatives))
    /\ \A k \in 1..Len(GetKey(e, KeyAlternatives).v) :
           IsStr(GetKey(e, KeyAlternatives).v[k])

(***************************************************************************)
(* The properties.                                                         *)
(***************************************************************************)
\* C1: once the lookup is behind a request whose trimmed reference is a key
\* of the local table, fetch_greek_text has returned exactly the text stored
\* under that key, and no call to either remote provider was or is made.
C1_LocalHitNoRemoteCall ==
    \A k \in 1..Len(verse_database) :
        (ResolutionStarted /\ Strip(reference) = verse_database[k][1])
        => /\ resolution = "Found"
           /\ greek_text = verse_database[k][2]
           /\ RemoteCalls = << >>

\* C1 happens: a padded key was resolved and its analysis answered, the model
\* call being the only call
C1_Witness ==
    /\ pc = "done"
    /\ reference # Strip(reference)
    /\ Strip(reference) = verse_database[2][1]
    /\ greek_text = verse_database[2][2]
    /\ response.status_code = 200
    /\ Len(calls) = 1

C3_FoundTextNonEmpty ==
    resolution = "Found" => greek_text # << >>

\* C4: a reply that, trimmed, opens with a fence and has no closing fence is
\* never answered with a success.
C4_UnterminatedFenceRejected ==
    (Answered /\ UnterminatedFence(content))
    => response.status_code # 200

\* C5 as stated: for every body that is a JSON array, also one whose string
\* holds the fence marker, the reply to the body inside a json fence has the
\* outcome of the reply to the body alone.
C5_FenceWrapAnyArray ==
    \A b \in ArrayBodies :
        (Answered /\ content = FenceWrap(ReplyBodies[b]))
        => Outcome(response) = Outcome(ReplyTo(ReplyBodies[b]))

\* C5, amended: for every body that is a JSON array and does not hold the
\* fence marker, the reply to the body inside a json fence has the outcome
\* of the reply to the body alone.
C5_FenceWrapArrayWithoutMarker ==
    \A b \in ArrayBodies :
        (/\ Answered
         /\ content = FenceWrap(ReplyBodies[b])
         /\ Find(ReplyBodies[b], Fence, 1) = 0)
        => Outcome(response) = Outcome(ReplyTo(ReplyBodies[b]))

\* C5 happens: the complete entry inside a json fence was answered with a
\* success by analyze_raw
C5_Witness ==
    /\ Answered
    /\ endpoint = "analyze_raw"
    /\ content = FenceWrap(ReplyBodies[2])
    /\ response.status_code = 200
    /\ response.content = json_dumps(json_loads(ReplyBodies[2]).val)

\* C6: no endpoint answers a success whose analysis is not an array.
C6_SuccessIsArray ==
    response.status_code = 200 => IsList(response.analysis)

\* C7: analyze_raw answers a success only if every element of the array is
\* an object with word, strong, lemma, translation as strings and
\* alternatives as an array of strings.
C7_RawEntriesValid ==
    (endpoint = "analyze_raw" /\ response.status_code = 200)
    => /\ IsList(response.analysis)
       /\ \A k \in 1..Len(response.analysis.v) :
              ValidEntry(response.analysis.v[k])

\* C8: a parsed reference has verse_end >= verse_start as integers, and
\* verse_end = verse_start when the input has no range.
C8_VerseRangeOrdered ==
    parts.ok
    => /\ ToInt(parts.verse_end) >= ToInt(parts.verse_start)
       /\ (Find(reference, << "-" >>, 1) = 0
           => parts.verse_end = parts.verse_start)

\* C9: once the parse is behind a request whose reference is no key of the
\* local table and does not match the pattern, the request is over with the
\* 404, and no call at all was made.
C9_BadReferenceIsNotFound ==
    (/\ ResolutionStarted
     /\ \A k \in 1..Len(verse_database) :
            Strip(reference) # verse_database[k][1]
     /\ ~parse_reference(reference).ok)
    => /\ pc = "done"
       /\ calls = << >>
       /\ resolution = "NotFound"
       /\ response.status_code = 404

\* C9 happens: analyze_raw, with a key, answered 404 to a reference without
\* chapter and verse
C9_Witness ==
    /\ pc = "done"
    /\ endpoint = "analyze_raw"
    /\ Strip(reference) = ReferenceBases[6]
    /\ ~parts.ok
    /\ calls = << >>
    /\ response.status_code = 404

\* C10: a step makes at most one call; a call goes to a tier after those of
\* all earlier calls in the order primary, secondary, model, so that no tier
\* is called twice; the secondary provider is called only when the primary
\* was called and returned nothing; the model is called only when
\* fetch_greek_text has returned.
C10_CallsInTierOrder ==
    [][calls' # calls
       => /\ Len(calls') = Len(calls) + 1
          /\ SubSeq(calls', 1, Len(calls)) = calls
          /\ LET new == calls'[Len(calls')].to
             IN  /\ \A k \in 1..Len(calls) :
                        TierRank(calls[k].to) < TierRank(new)
                 /\ new = "rest.api.bible"
                    => /\ CallTargets = << "getbible.net" >>
                       /\ resolution = "pending"
                 /\ IsModelHost(new) => resolution = "Found"]_vars

\* C10 happens: a request called the primary provider, the secondary and the
\* model, in this order, and was answered with a success
C10_Witness ==
    /\ pc = "done"
    /\ resolution = "Found"
    /\ response.status_code = 200
    /\ Len(calls) = 3
    /\ calls[1].to = "getbible.net"
    /\ calls[2].to = "rest.api.bible"
    /\ IsModelHost(calls[3].to)
=============================================================================
